---- MODULE Spec2Model ----
(***************************************************************************)
(* JobHunt lead intake pipeline: identity assignment (runner.py),          *)
(* the provider fallback manager with its circuit breaker and run budget   *)
(* (llm/manager.py), and the orchestrator's intake loop (runner.py).       *)
(*                                                                         *)
(* The specifications share the variables:                                 *)
(*   Spec       the requests main_async makes of its LLMManager through    *)
(*              score_lead, with time passing between them                 *)
(*   SpecBudget the LLM usage of one run: the LLMManager built by          *)
(*              GoogleSearchSource.fetch_leads serves query generation,    *)
(*              then the LLMManager built by main_async serves score_lead  *)
(*   SpecId     generate_lead_id applied to pairs of leads                 *)
(*   SpecIntake main_async from the loaded seen set to the end of the run  *)
(*   SpecFilter TechFilter.process_lead applied to one lead                *)
(*   SpecLocation LocationParser.parse applied to one location string      *)
(*   SpecEnrich enrich_leads: the crawl tasks of each batch interleaved    *)
(*   SpecSearch the query loop of GoogleSearchSource.fetch_leads           *)
(* Scores are held in hundredths (0.6 is 60).  Time is in seconds.         *)
(***************************************************************************)
EXTENDS Integers, Naturals, Sequences, FiniteSets, TLC

VARIABLES
    \* ---- LLMManager instances (llm/manager.py) ----
    now,              \* time.time()
    calls_this_run,   \* manager -> LLMManager.calls_this_run
    failures,         \* manager -> CircuitBreaker.failures (a dict: key -> time)
    phase,            \* where the run is: "fetch", "score", or "idle"
    batches_left,     \* role batches fetch_leads may still diversify
    leads_left,       \* crawl candidates main_async may still score
    last,             \* observation of the last generate() request
    fail_log,         \* history: manager -> key -> {time record_failure last ran}
    scored,           \* observation of the last score_lead() call
    \* ---- generate_lead_id (runner.py) ----
    id_leads,         \* the pair of leads whose identity is computed
    id_out,           \* their computed identities (<<>> before)
    \* ---- main_async (runner.py) ----
    config,           \* the loaded configuration
    seen_ids,         \* seen_ids
    loaded_ids,       \* history: the set load_seen_ids() returned
    all_raw_leads,    \* all_raw_leads (the leads are mutated in place)
    idx,              \* position of the pre-filter loop in all_raw_leads
    candidates_to_crawl, \* indexes into all_raw_leads, in append order
    skipped_ids,      \* skipped_ids
    pc,               \* stage of main_async
    stages,           \* history: raw lead index -> stages that touched it
    fetched,          \* history: all_raw_leads as the sources returned them
    fin_idx,          \* position of the finalize loop in candidates_to_crawl
    new_leads_to_save, \* indexes of the leads kept by the finalize loop
    high_value_leads, \* indexes of the kept leads at or above the alert threshold
    store_rows,       \* rows append_leads wrote
    notified,         \* leads handed to the notifiers
    \* ---- process_lead and parse applied to drawn inputs ----
    fn_in,            \* the input of the function (<<>> when unused)
    fn_out,           \* its result (<<>> before the call)
    \* ---- enrich_leads (utils/crawler.py) ----
    crawl_leads,      \* the leads enrich_leads was given (mutated in place)
    crawl_tasks,      \* per lead: the state of its crawl_lead coroutine
    crawl_i,          \* i of the batch loop (0-based start of the batch)
    crawl_pc,         \* where enrich_leads is
    \* ---- GoogleSearchSource.fetch_leads (sources/google_search.py) ----
    search_n,         \* len(queries)
    search_q,         \* position of the query loop (1-based)
    search_attempts,  \* history: calls made for the current query (capped)
    search_found,     \* len(leads)
    search_pc         \* where fetch_leads is

llmVars == <<now, calls_this_run, failures, phase, batches_left, leads_left,
             last, fail_log, scored>>
idVars == <<id_leads, id_out>>
runVars == <<config, seen_ids, loaded_ids, all_raw_leads, idx,
             candidates_to_crawl, skipped_ids, pc, stages, fetched, fin_idx,
             new_leads_to_save, high_value_leads, store_rows, notified>>
fnVars == <<fn_in, fn_out>>
crawlVars == <<crawl_leads, crawl_tasks, crawl_i, crawl_pc>>
searchVars == <<search_n, search_q, search_attempts, search_found, search_pc>>
vars == <<llmVars, idVars, runVars, fnVars, crawlVars, searchVars>>

\* Python None, where a text (a sequence of tokens) is expected
None == <<"None">>

\* mutant of min: the cap is ignored
MinUncapped(a, b) == a

Min(a, b) == IF a <= b THEN a ELSE b

(***************************************************************************)
(* Strings are sequences of atoms: single characters ("a", "A", "b", "h"), *)
(* white space ("ws"), punctuation, and whole words or phrases where the   *)
(* code only ever treats them as a unit.  Concatenation is \o.             *)
(***************************************************************************)
\* every atom a string of the model is made of; an atom's position is its code
Vocabulary ==
    << "a", "A", "b", "h", "ws", ",",
       "Acme", "ACME", "acme", "Beta", "beta", "Gamma", "gamma", "Delta", "delta",
       "Senior", "senior", "Backend", "backend", "Engineer", "engineer",
       "Recruiter", "recruiter", "Data", "data", "Analyst", "analyst",
       "cjk_word", "python", "aws", "kubernetes", "Python",
       "New York", "new york", "NEW YORK", "NY", "ny", "London", "london",
       "LONDON", "UK", "uk", "Remote", "remote", "REMOTE",
       "United States", "united states", "UNITED STATES",
       "http://acme.com/jobs/1", "http://beta.com/jobs/2",
       "http://gamma.com/jobs/3", "http://delta.com/jobs/4", "mailto:jobs",
       "docker", "sql", "go", "San Francisco", "san francisco", "SAN FRANCISCO",
       "CA", "ca", "US", "us", "(", ")", "New Mexico", "new mexico",
       "NEW MEXICO", "Austin", "austin", "AUSTIN", "Texas", "texas", "TEXAS",
       "Frontend", "frontend", "Full Stack", "full stack", "ML", "ml",
       "DevOps", "devops", "Cloud", "cloud", "Security", "security",
       "Trainer", "trainer" >>

\* <<atom, atom.lower(), atom.upper()>> for the atoms that change with case
CaseTable ==
    { <<"a", "a", "A">>, <<"A", "a", "A">>, <<"b", "b", "B">>, <<"h", "h", "H">>,
      <<"Acme", "acme", "ACME">>, <<"ACME", "acme", "ACME">>, <<"acme", "acme", "ACME">>,
      <<"Beta", "beta", "BETA">>, <<"Gamma", "gamma", "GAMMA">>,
      <<"Delta", "delta", "DELTA">>,
      <<"Senior", "senior", "SENIOR">>, <<"Backend", "backend", "BACKEND">>,
      <<"Engineer", "engineer", "ENGINEER">>, <<"Recruiter", "recruiter", "RECRUITER">>,
      <<"Data", "data", "DATA">>, <<"Analyst", "analyst", "ANALYST">>,
      <<"Python", "python", "PYTHON">>, <<"python", "python", "PYTHON">>,
      <<"aws", "aws", "AWS">>, <<"kubernetes", "kubernetes", "KUBERNETES">>,
      <<"New York", "new york", "NEW YORK">>, <<"NY", "ny", "NY">>,
      <<"London", "london", "LONDON">>, <<"UK", "uk", "UK">>,
      <<"Remote", "remote", "REMOTE">>,
      <<"United States", "united states", "UNITED STATES">>,
      <<"docker", "docker", "DOCKER">>, <<"sql", "sql", "SQL">>,
      <<"go", "go", "GO">>,
      <<"San Francisco", "san francisco", "SAN FRANCISCO">>,
      <<"CA", "ca", "CA">>, <<"US", "us", "US">>,
      <<"New Mexico", "new mexico", "NEW MEXICO">>,
      <<"Austin", "austin", "AUSTIN">>, <<"Texas", "texas", "TEXAS">>,
      <<"Frontend", "frontend", "FRONTEND">>,
      <<"Full Stack", "full stack", "FULL STACK">>, <<"ML", "ml", "ML">>,
      <<"DevOps", "devops", "DEVOPS">>, <<"Cloud", "cloud", "CLOUD">>,
      <<"Security", "security", "SECURITY">>,
      <<"Trainer", "trainer", "TRAINER">> }

\* bound: longest company / title string drawn for generate_lead_id
MaxStrLen == 2

Chars == {"a", "A"}

Strings == UNION {[1..n -> Chars] : n \in 0..MaxStrLen}

\* canonical links: the scheme character "h" followed by a path
Links == {<<"h">>, <<"h", "a">>}

\* str.lower() on one atom
LowerChar(c) ==
    IF \E r \in CaseTable : r[1] = c
    THEN (CHOOSE r \in CaseTable : r[1] = c)[2]
    ELSE c

\* str.upper() on one atom
UpperChar(c) ==
    IF \E r \in CaseTable : r[1] = c
    THEN (CHOOSE r \in CaseTable : r[1] = c)[3]
    ELSE c

\* str.lower()
Lower(s) == [i \in 1..Len(s) |-> LowerChar(s[i])]

\* str.upper()
Upper(s) == [i \in 1..Len(s) |-> UpperChar(s[i])]

\* str.encode('utf-8') of one atom: its code, 1..255
CharCode(c) == CHOOSE i \in 1..Len(Vocabulary) : Vocabulary[i] = c

HexDigits == <<"0", "1", "2", "3", "4", "5", "6", "7", "8", "9", "a", "b", "c", "d", "e", "f">>

\* length of hashlib's sha256 hexdigest
DigestLen == 64

\* hashlib.sha256(bytes).hexdigest(): a deterministic, fixed-length digest of
\* 64 hex characters.  It is modelled collision-free on the inputs drawn here
\* (at most 32 atoms): two hex digits per atom, "0" after the last one.
Sha256Hex(s) ==
    [i \in 1..DigestLen |->
        LET k == (i + 1) \div 2 IN
        IF k > Len(s) THEN "0"
        ELSE IF i % 2 = 1 THEN HexDigits[(CharCode(s[k]) \div 16) + 1]
        ELSE HexDigits[(CharCode(s[k]) % 16) + 1]]

\* a mutant of generate_lead_id: the snippet gets into the digest input
GenerateLeadIdWithSnippet(lead) ==
    Sha256Hex(Lower(lead.company) \o Lower(lead.role_title) \o lead.link \o lead.description_snippet)

\* runner.py generate_lead_id
GenerateLeadId(lead) ==
    Sha256Hex(Lower(lead.company) \o Lower(lead.role_title) \o lead.link)

(***************************************************************************)
(* SpecId: generate_lead_id on pairs of leads.  The second lead shares the *)
(* first one's title and link; its company is the same, the same up to     *)
(* case, or empty; its snippet and capture time are drawn freely.          *)
(***************************************************************************)
Snippets == {<<>>, <<"b">>}
CaptureTimes == {1, 2}

IdLead(c, t, l, s, at) ==
    [company |-> c, role_title |-> t, link |-> l, description_snippet |-> s,
     captured_at_utc |-> at]

IdSecondLeads(c, t, l) ==
    {IdLead(c2, t, l, s, at) :
        c2 \in {c, Lower(c), <<>>}, s \in Snippets, at \in CaptureTimes}

\* leads whose company and title are cut elsewhere out of the same characters
IdResplitLeads(c, t, l) ==
    {IdLead(SubSeq(c \o t, 1, k), SubSeq(c \o t, k + 1, Len(c \o t)), l, <<>>, 1) :
        k \in 0..Len(c \o t)}

IdLeadPairs ==
    UNION {{<<IdLead(c, t, l, <<>>, 1), l2>> :
                l2 \in IdSecondLeads(c, t, l) \cup IdResplitLeads(c, t, l)} :
              c \in Strings, t \in Strings, l \in Links}

SameKey(l1, l2) ==
    /\ l1.company = l2.company
    /\ l1.role_title = l2.role_title
    /\ l1.link = l2.link

\* values of the other components while a specification does not use them
IdleLlm ==
    /\ now = 0 /\ calls_this_run = <<>> /\ failures = <<>> /\ phase = "idle"
    /\ batches_left = 0 /\ leads_left = 0 /\ last = <<>> /\ fail_log = <<>>
    /\ scored = <<>>
IdleId == id_leads = <<>> /\ id_out = <<>>
IdleFn == fn_in = <<>> /\ fn_out = <<>>
IdleCrawl ==
    /\ crawl_leads = <<>> /\ crawl_tasks = <<>> /\ crawl_i = 0
    /\ crawl_pc = "idle"
IdleSearch ==
    /\ search_n = 0 /\ search_q = 0 /\ search_attempts = 0 /\ search_found = 0
    /\ search_pc = "idle"
IdleRun ==
    /\ config = <<>> /\ seen_ids = {} /\ loaded_ids = {} /\ all_raw_leads = <<>>
    /\ idx = 0 /\ candidates_to_crawl = <<>> /\ skipped_ids = 0 /\ pc = "idle"
    /\ stages = <<>> /\ store_rows = <<>> /\ notified = <<>>
    /\ fetched = <<>> /\ fin_idx = 0 /\ new_leads_to_save = <<>>
    /\ high_value_leads = <<>>

IdInit ==
    /\ id_leads \in IdLeadPairs /\ id_out = <<>>
    /\ IdleLlm /\ IdleRun /\ IdleFn /\ IdleCrawl /\ IdleSearch

\* test_dedupe_id_generation: the identity of each lead is computed
ComputeIds ==
    /\ id_leads # <<>> /\ id_out = <<>>
    /\ id_out' = <<GenerateLeadId(id_leads[1]), GenerateLeadId(id_leads[2])>>
    /\ UNCHANGED <<id_leads, llmVars, runVars, fnVars, crawlVars, searchVars>>

IdNext == ComputeIds
SpecId == IdInit /\ [][IdNext]_vars

IsHexDigest(d) ==
    /\ Len(d) = 64
    /\ \A i \in 1..Len(d) : \E k \in 1..16 : d[i] = HexDigits[k]

\* C10: the identity is a 64 hex character digest decided by (company, title,
\* link) alone: two leads with the same company, title and link have equal
\* identities whatever their snippet and capture time.
C10_IdentityDeterminism ==
    id_out # <<>> =>
        /\ IsHexDigest(id_out[1]) /\ IsHexDigest(id_out[2])
        /\ SameKey(id_leads[1], id_leads[2]) => id_out[1] = id_out[2]

\* C29: with the hash free of collisions, two leads get the same identity only
\* if they have the same lowercased company, the same lowercased title and
\* the same link.
C29_IdentitySeparates ==
    (id_out # <<>> /\ id_out[1] = id_out[2]) =>
        /\ Lower(id_leads[1].company) = Lower(id_leads[2].company)
        /\ Lower(id_leads[1].role_title) = Lower(id_leads[2].role_title)
        /\ id_leads[1].link = id_leads[2].link

\* C10 witness: two leads with the same key, another snippet and another
\* capture time have been given their identities.
C10_Witness ==
    /\ id_out # <<>>
    /\ SameKey(id_leads[1], id_leads[2])
    /\ id_leads[1].company # <<>>
    /\ id_leads[1].description_snippet # id_leads[2].description_snippet
    /\ id_leads[1].captured_at_utc # id_leads[2].captured_at_utc

(***************************************************************************)
(* llm/manager.py: CircuitBreaker and LLMManager.generate                  *)
(***************************************************************************)
\* config["llm"]["providers"]: ranked providers, each with its ranked models
Providers ==
    << [name |-> "groq", models |-> <<"m1", "m2">>],
       [name |-> "openrouter", models |-> <<"m3">>] >>

\* bound: config["llm"]["global_run_budget"]
RunBudget == 2

\* CircuitBreaker.__init__: cooldown_seconds
Cooldown == 300

\* bound: time.time() when the run starts (epoch seconds, far above Cooldown)
StartTime == 1000

\* bound: the shorter of the two delays the clock advances by
TickStep == 150

\* bound: how far past StartTime the clock is followed
Horizon == 450

MaxTime == StartTime + Horizon
Delays == {TickStep, Cooldown}

\* the two LLMManager instances of a run: fetch_leads' and main_async's
Managers == {"search", "runner"}

\* the (provider, model) pairs from provider pi on, in the order of the loops
RECURSIVE EndpointsFrom(_)
EndpointsFrom(pi) ==
    IF pi > Len(Providers) THEN <<>>
    ELSE [mi \in 1..Len(Providers[pi].models) |-> [pi |-> pi, mi |-> mi]]
         \o EndpointsFrom(pi + 1)

\* a mutant of the loop order: the last provider is tried first
EndpointOrderReversed ==
    [i \in 1..Len(EndpointsFrom(1)) |->
        EndpointsFrom(1)[Len(EndpointsFrom(1)) + 1 - i]]

\* generate: for provider_conf in self.providers: for model in models
EndpointOrder == EndpointsFrom(1)

\* breaker_key = f"{p_name}:{model}"
BreakerKey(e) == <<Providers[e.pi].name, Providers[e.pi].models[e.mi]>>

BreakerKeys == {BreakerKey(EndpointOrder[i]) : i \in 1..Len(EndpointOrder)}

\* dict.get(key, default)
DictGet(d, key, default) == IF key \in DOMAIN d THEN d[key] ELSE default

\* d[key] = value
DictSet(d, key, value) ==
    [k \in DOMAIN d \cup {key} |-> IF k = key THEN value ELSE d[k]]

\* a mutant of can_try: the cooldown boundary itself is already eligible
CanTryAtBoundary(fails, key, t) == t - DictGet(fails, key, 0) >= Cooldown

\* CircuitBreaker.can_try
CanTry(fails, key, t) == t - DictGet(fails, key, 0) > Cooldown

\* CircuitBreaker.record_failure
RecordFailure(fails, key, t) == DictSet(fails, key, t)

\* a mutant of the budget test: one call past the ceiling is let through
BudgetExhaustedOffByOne(calls) == calls > RunBudget

\* generate: if self.calls_this_run >= self.run_budget
BudgetExhausted(calls) == calls >= RunBudget

\* What the model returns: a response text is a sequence of tokens, a payload
\* token standing for one JSON value, "text" for prose, "ws" for white space.
ScoreResponses ==
    { <<"obj_score_reason">>,
      <<"fence_json", "obj_score_reason", "fence">>,
      <<"text", "obj_score_reason">>,
      <<"text">>,
      <<"obj_reason">>,
      <<"obj_badscore_reason">>,
      <<"obj_pctscore_reason">>,
      <<"list4">>,
      <<"ws">> }
QueryResponses == { <<"list4">>, <<"text", "list2", "text">>, <<"site_line", "site_line">> }

\* the errors _call_provider raises: "Rate Limited" on HTTP 429, a requests
\* timeout, raise_for_status on another HTTP error, ValueError on a missing key
ProviderErrors == {"RateLimited", "Timeout", "HTTPError", "MissingKey"}

\* what one _call_provider call does: raise an error or return a value
CallOutcomes(responses) ==
    {[kind |-> "raise", value |-> None, error |-> e] : e \in ProviderErrors}
    \cup {[kind |-> "return", value |-> r, error |-> ""] : r \in responses \cup {<<>>}}

\* a mutant of the except clause: only the rate-limit error is caught
CaughtOnlyRateLimit(e) == e = "RateLimited"

\* generate: except Exception (every error _call_provider raises is one)
Caught(e) == e \in ProviderErrors


\* generate: self.calls_this_run += 1
CountSuccess(calls) == calls + 1

\* Python truthiness of a returned string
Truthy(text) == text # <<>> /\ text # None

GenEntry(i, kind, at, done, o) ==
    [ep |-> i, kind |-> kind, at |-> at, done |-> done, value |-> o.value]

NoCall == [kind |-> "none", value |-> None, error |-> ""]

\* The provider loop of generate from endpoint position i on: the set of ways
\* it can end.  st holds the breaker failures, the history of record_failure
\* calls, the clock and the trace of what was done at each endpoint reached.
RECURSIVE GenerateFrom(_, _, _)
GenerateFrom(i, st, responses) ==
    IF i > Len(EndpointOrder)
    THEN {[result |-> None, success |-> FALSE, raised |-> FALSE,
           failures |-> st.failures, log |-> st.log, now |-> st.now,
           trace |-> st.trace]}
    ELSE LET key == BreakerKey(EndpointOrder[i]) IN
      IF ~CanTry(st.failures, key, st.now)
      THEN GenerateFrom(i + 1,
               [st EXCEPT !.trace = Append(@, GenEntry(i, "skip", st.now, st.now, NoCall))],
               responses)
      ELSE UNION {
        LET t2 == st.now IN
        IF o.kind = "raise"
        THEN IF Caught(o.error)
             THEN GenerateFrom(i + 1,
                      [failures |-> RecordFailure(st.failures, key, t2),
                       log |-> [st.log EXCEPT ![key] = {t2}],
                       now |-> t2,
                       trace |-> Append(st.trace, GenEntry(i, "raise", st.now, t2, o))],
                      responses)
             ELSE {[result |-> None, success |-> FALSE, raised |-> TRUE,
                    failures |-> st.failures, log |-> st.log, now |-> t2,
                    trace |-> Append(st.trace, GenEntry(i, "raise", st.now, t2, o))]}
        ELSE IF Truthy(o.value)
             THEN {[result |-> o.value, success |-> TRUE, raised |-> FALSE,
                    failures |-> st.failures, log |-> st.log, now |-> t2,
                    trace |-> Append(st.trace, GenEntry(i, "ok", st.now, t2, o))]}
             ELSE GenerateFrom(i + 1,
                      [st EXCEPT !.now = t2,
                                 !.trace = Append(@, GenEntry(i, "empty", st.now, t2, o))],
                      responses)
        : o \in CallOutcomes(responses) }

\* LLMManager.generate on manager m: the set of its possible outcomes, each
\* with the manager's state after it
Generate(m, responses) ==
    IF BudgetExhausted(calls_this_run[m])
    THEN {[result |-> None, success |-> FALSE, raised |-> FALSE,
           failures |-> failures[m], log |-> fail_log[m], now |-> now,
           trace |-> <<>>, calls |-> calls_this_run[m]]}
    ELSE {[result |-> r.result, success |-> r.success, raised |-> r.raised,
           failures |-> r.failures, log |-> r.log, now |-> r.now,
           trace |-> r.trace,
           calls |-> IF r.success THEN CountSuccess(calls_this_run[m])
                     ELSE calls_this_run[m]] :
          r \in GenerateFrom(1, [failures |-> failures[m], log |-> fail_log[m],
                                 now |-> now, trace |-> <<>>], responses)}

(***************************************************************************)
(* llm/manager.py: score_lead and generate_search_queries                  *)
(***************************************************************************)
\* json: the value a payload token stands for
JsonTokens ==
    {"obj_score_reason", "obj_reason", "obj_badscore_reason",
     "obj_pctscore_reason", "list4", "list2"}

JsonValue(tok) ==
    CASE tok = "obj_score_reason" ->
           [type |-> "object", keys |-> {"score", "reason"}, score |-> 95,
            numeric |-> TRUE, reason |-> "Strong match", len |-> 2]
      [] tok = "obj_reason" ->
           [type |-> "object", keys |-> {"reason"}, score |-> 0,
            numeric |-> FALSE, reason |-> "Looks fine", len |-> 1]
      [] tok = "obj_badscore_reason" ->
           [type |-> "object", keys |-> {"score", "reason"}, score |-> 0,
            numeric |-> FALSE, reason |-> "Unsure", len |-> 2]
      [] tok = "obj_pctscore_reason" ->     \* {"score": 85, "reason": ...}
           [type |-> "object", keys |-> {"score", "reason"}, score |-> 8500,
            numeric |-> TRUE, reason |-> "85 percent match", len |-> 2]
      [] tok = "list4" ->
           [type |-> "list", keys |-> {}, score |-> 0,
            numeric |-> FALSE, reason |-> "", len |-> 4]
      [] tok = "list2" ->
           [type |-> "list", keys |-> {}, score |-> 0,
            numeric |-> FALSE, reason |-> "", len |-> 2]

\* str.strip(): leading and trailing white space removed
RECURSIVE Strip(_)
Strip(text) ==
    IF text = <<>> THEN text
    ELSE IF Head(text) = "ws" THEN Strip(Tail(text))
    ELSE IF text[Len(text)] = "ws" THEN Strip(SubSeq(text, 1, Len(text) - 1))
    ELSE text

IsFence(tok) == tok \in {"fence_json", "fence"}
NotFence(tok) == ~IsFence(tok)
NotWs(tok) == tok # "ws"

\* .replace("```json", "").replace("```", "")
RemoveFences(text) == SelectSeq(text, NotFence)

\* json.loads: the text must be one JSON value, white space around it allowed
JsonLoads(text) ==
    LET body == SelectSeq(text, NotWs) IN
    IF Len(body) = 1 /\ body[1] \in JsonTokens
    THEN [ok |-> TRUE, value |-> JsonValue(body[1])]
    ELSE [ok |-> FALSE, value |-> JsonValue("list2")]

\* a mutant of the except branch of score_lead: a failed parse zeroes the score
OnParseFailureZeroed(lead) == [lead EXCEPT !.match_score = 0]

\* score_lead: except Exception ... return lead
OnParseFailure(lead) == lead

\* score_lead from the response on (lines 171-188)
ApplyScoreResponse(lead, response_text) ==
    IF ~Truthy(response_text) THEN lead
    ELSE LET data == JsonLoads(RemoveFences(Strip(response_text))) IN
      IF ~data.ok THEN OnParseFailure(lead)                  \* JSONDecodeError
      ELSE IF data.value.type # "object" THEN OnParseFailure(lead)  \* no .get
      ELSE IF "score" \in data.value.keys /\ ~data.value.numeric
           THEN OnParseFailure(lead)                         \* float() raises
      ELSE [lead EXCEPT
              !.match_score = IF "score" \in data.value.keys
                              THEN data.value.score ELSE lead.match_score,
              !.notes = <<"LLM: ",
                          IF "reason" \in data.value.keys
                          THEN data.value.reason ELSE "No reason provided">>]

\* index of the first / last token of text satisfying a test, 0 when none
FirstIndex(text, S) ==
    IF \E i \in 1..Len(text) : text[i] \in S
    THEN CHOOSE i \in 1..Len(text) :
            text[i] \in S /\ \A j \in 1..(i - 1) : text[j] \notin S
    ELSE 0
LastIndex(text, S) ==
    IF \E i \in 1..Len(text) : text[i] \in S
    THEN CHOOSE i \in 1..Len(text) :
            text[i] \in S /\ \A j \in (i + 1)..Len(text) : text[j] \notin S
    ELSE 0

ListTokens == {"list4", "list2"}

\* generate_search_queries: queries[:3]
MaxQueries == 3

\* generate_search_queries from the response on (lines 219-246): the number
\* of queries returned
ParseQueries(resp) ==
    IF ~Truthy(resp) THEN 0
    ELSE
      LET stripped == Strip(resp)
          \* split("```json")[-1].split("```")[0].strip()
          afterJson == SubSeq(stripped, LastIndex(stripped, {"fence_json"}) + 1, Len(stripped))
          unfenced ==
              IF \E i \in 1..Len(stripped) : IsFence(stripped[i])
              THEN Strip(IF FirstIndex(afterJson, {"fence"}) = 0 THEN afterJson
                         ELSE SubSeq(afterJson, 1, FirstIndex(afterJson, {"fence"}) - 1))
              ELSE stripped
          \* re.search(r'\[.*\]', clean_text, re.DOTALL)
          clean == IF FirstIndex(unfenced, ListTokens) = 0 THEN unfenced
                   ELSE SubSeq(unfenced, FirstIndex(unfenced, ListTokens),
                               LastIndex(unfenced, ListTokens))
          data == JsonLoads(clean)
          \* the fallback: the lines of clean_text that contain "site:"
          lines == SelectSeq(clean, LAMBDA tok : tok = "site_line")
      IN IF data.ok
         THEN IF data.value.type = "list" THEN Min(data.value.len, MaxQueries) ELSE 0
         ELSE Min(Len(lines), MaxQueries)

(***************************************************************************)
(* Spec: the LLMManager main_async builds (runner.py:47), serving the      *)
(* score_lead calls of the scoring loop while time passes.                 *)
(* SpecBudget: the two LLMManager instances of one run.  fetch_leads       *)
(* builds its own (google_search.py:89) and asks it for queries once per   *)
(* role batch; then main_async calls score_lead on the other for each      *)
(* crawl candidate.  The clock stands still in SpecBudget (the run is      *)
(* shorter than the cooldown).                                             *)
(* The leads handed to score_lead are drawn from ScoreInputs.              *)
(***************************************************************************)
\* fetch_leads: at most two role batches
MaxRoleBatches == 2

\* bound: crawl candidates that reach deep scoring in the run
MaxLeads == 3

VagueNote == "Snippet vague, need deep crawl to confirm."
CrawledNote == " [Crawled]"

\* The leads score_lead is called on: with a description, with an empty one,
\* and without the attribute (the field is absent from the record).
ScoreInputs ==
    LET base == { [match_score |-> 10, notes |-> <<VagueNote, CrawledNote>>],
                  [match_score |-> 60, notes |-> <<CrawledNote>>] }
    IN  { [match_score |-> b.match_score, notes |-> b.notes,
           full_description |-> d] : b \in base, d \in {<<>>, <<"desc">>} }
        \cup { [match_score |-> 10, notes |-> <<VagueNote>>] }

NoRequest ==
    [mgr |-> "none", consumer |-> "none", start |-> 0, pre_calls |-> 0,
     pre_total |-> 0, pre_failures |-> <<>>, pre_log |-> <<>>, trace |-> <<>>,
     result |-> None, raised |-> FALSE, queries |-> 0]

NoScore ==
    [state |-> "none", before |-> <<>>, after |-> <<>>, response |-> None,
     raised |-> FALSE]

TotalCalls == calls_this_run["search"] + calls_this_run["runner"]

\* both managers as their constructors leave them (LLMManager.__init__)
FreshManagers ==
    /\ now = StartTime
    /\ calls_this_run = [m \in Managers |-> 0]
    /\ failures = [m \in Managers |-> <<>>]
    /\ fail_log = [m \in Managers |-> [k \in BreakerKeys |-> {}]]
    /\ last = NoRequest
    /\ scored = NoScore
    /\ leads_left = MaxLeads

Init ==
    /\ FreshManagers
    /\ phase = "score"
    /\ batches_left = 0
    /\ IdleId /\ IdleRun /\ IdleFn /\ IdleCrawl /\ IdleSearch

BudgetInit ==
    /\ FreshManagers
    /\ phase = "fetch"
    /\ batches_left = MaxRoleBatches
    /\ IdleId /\ IdleRun /\ IdleFn /\ IdleCrawl /\ IdleSearch

\* time passes between two requests
Tick ==
    /\ phase = "score"
    /\ \E d \in Delays :
        /\ now + d <= MaxTime
        /\ now' = now + d
    /\ UNCHANGED <<calls_this_run, failures, phase, batches_left, leads_left,
                   last, fail_log, scored, idVars, fnVars, crawlVars, runVars, searchVars>>

\* the manager's state and the observation after generate() ended as g
AfterGenerate(m, consumer, g, queries) ==
    /\ now' = g.now
    /\ calls_this_run' = [calls_this_run EXCEPT ![m] = g.calls]
    /\ failures' = [failures EXCEPT ![m] = g.failures]
    /\ fail_log' = [fail_log EXCEPT ![m] = g.log]
    /\ last' = [mgr |-> m, consumer |-> consumer, start |-> now,
                pre_calls |-> calls_this_run[m], pre_total |-> TotalCalls,
                pre_failures |-> failures[m], pre_log |-> fail_log[m],
                trace |-> g.trace, result |-> g.result, raised |-> g.raised,
                queries |-> queries]

\* fetch_leads: llm.generate_search_queries(batch_roles, intent_phrase)
GenerateSearchQueries ==
    /\ phase = "fetch" /\ batches_left > 0
    /\ \E g \in Generate("search", QueryResponses) :
        AfterGenerate("search", "queries", g,
                      IF g.raised THEN 0 ELSE ParseQueries(g.result))
    /\ batches_left' = batches_left - 1
    /\ UNCHANGED <<phase, leads_left, scored, idVars, fnVars, crawlVars, runVars, searchVars>>

\* fetch_leads has asked for every role batch it had (it may have fewer than
\* MaxRoleBatches) and returns; main_async goes on to its scoring loop
StartScoring ==
    /\ phase = "fetch"
    /\ phase' = "score"
    /\ batches_left' = 0
    /\ UNCHANGED <<now, calls_this_run, failures, leads_left,
                   last, fail_log, scored, idVars, fnVars, crawlVars, runVars, searchVars>>

\* main_async: lead = llm_manager.score_lead(lead)
ScoreLead ==
    /\ phase = "score" /\ leads_left > 0
    /\ leads_left' = leads_left - 1
    /\ \E lead \in ScoreInputs :
        IF "full_description" \notin DOMAIN lead
        THEN \* AttributeError at line 141, before the try
             /\ scored' = [state |-> "raised", before |-> lead, after |-> lead,
                           response |-> None, raised |-> TRUE]
             /\ UNCHANGED <<now, calls_this_run, failures, last, fail_log, searchVars>>
        ELSE IF ~Truthy(lead.full_description)
        THEN /\ scored' = [state |-> "skipped", before |-> lead, after |-> lead,
                           response |-> None, raised |-> FALSE]
             /\ UNCHANGED <<now, calls_this_run, failures, last, fail_log, searchVars>>
        ELSE \E g \in Generate("runner", ScoreResponses) :
             /\ AfterGenerate("runner", "score", g, 0)
             /\ scored' = [state |-> "asked", before |-> lead,
                           after |-> IF g.raised THEN lead
                                     ELSE ApplyScoreResponse(lead, g.result),
                           response |-> g.result, raised |-> g.raised]
    /\ UNCHANGED <<phase, batches_left, idVars, fnVars, crawlVars, runVars, searchVars>>

Next == Tick \/ ScoreLead

Spec == Init /\ [][Next]_vars

BudgetNext == GenerateSearchQueries \/ StartScoring \/ ScoreLead

SpecBudget == BudgetInit /\ [][BudgetNext]_vars

(***************************************************************************)
(* main_async (runner.py): the intake of one run                           *)
(***************************************************************************)
\* JobLead(...): a lead as a source builds it (sources/base.py defaults)
JobLead(company, role_title, location_raw, snippet, link, captured) ==
    [lead_id |-> <<>>, captured_at_utc |-> captured, company |-> company,
     role_title |-> role_title, role_category |-> "unknown",
     location_raw |-> location_raw, city |-> "", state |-> "",
     country |-> "USA", remote_type |-> "unknown",
     tech_stack_keywords |-> <<>>, description_snippet |-> snippet,
     link |-> link, match_score |-> 0, matched_keywords |-> <<>>,
     notes |-> <<>>]

\* pydantic: assigning a field the model does not declare raises ValueError
SetAttr(lead, name, value) ==
    IF name \in DOMAIN lead
    THEN [ok |-> TRUE, lead |-> [lead EXCEPT ![name] = value]]
    ELSE [ok |-> FALSE, lead |-> lead]

\* pydantic: reading a field the model does not declare raises AttributeError
HasAttr(lead, name) == name \in DOMAIN lead

\* the words inside an atom, for the regex \bword\b
WordsIn(tok) ==
    CASE tok = "new york" -> {"new york", "new", "york"}
      [] tok = "united states" -> {"united states", "united", "states"}
      [] tok = "new mexico" -> {"new mexico", "new", "mexico"}
      [] tok = "san francisco" -> {"san francisco", "san", "francisco"}
      [] tok = "full stack" -> {"full stack", "full", "stack"}
      [] tok \in {"ws", ",", "(", ")", "cjk_word"} -> {}
      [] OTHER -> {tok}

\* the substrings of an atom that a Python `in` test of the code can find
NeedlesIn(tok) ==
    CASE tok = "recruiter" -> {"recruiter", "ui"}
      [] tok = "trainer" -> {"trainer", "ai"}
      [] tok \in {"http://acme.com/jobs/1", "http://beta.com/jobs/2",
                  "http://gamma.com/jobs/3", "http://delta.com/jobs/4"}
            -> {tok, "http"}
      [] OTHER -> {tok}

\* mutant of the whole-word search: nothing is ever found
WordMatchNever(text, word) == FALSE

\* re.search(rf"\b{word}\b", text)
WordMatch(text, word) == \E i \in 1..Len(text) : word \in WordsIn(text[i])

\* needle in text
Contains(text, needle) == \E i \in 1..Len(text) : needle \in NeedlesIn(text[i])

\* LocationParser.us_country_indicators
us_country_indicators == <<"united states", "usa", "u.s.", "u.s", "us">>

\* LocationParser.us_state_codes
us_state_codes ==
    << "AL", "AK", "AZ", "AR", "CA", "CO", "CT", "DE", "FL", "GA",
       "HI", "ID", "IL", "IN", "IA", "KS", "KY", "LA", "ME", "MD",
       "MA", "MI", "MN", "MS", "MO", "MT", "NE", "NV", "NH", "NJ",
       "NM", "NY", "NC", "ND", "OH", "OK", "OR", "PA", "RI", "SC",
       "SD", "TN", "TX", "UT", "VT", "VA", "WA", "WV", "WI", "WY",
       "DC" >>

\* LocationParser.us_state_names
us_state_names ==
    << "alabama", "alaska", "arizona", "arkansas", "california", "colorado",
       "connecticut", "delaware", "florida", "georgia", "hawaii", "idaho",
       "illinois", "indiana", "iowa", "kansas", "kentucky", "louisiana",
       "maine", "maryland", "massachusetts", "michigan", "minnesota",
       "mississippi", "missouri", "montana", "nebraska", "nevada",
       "new hampshire", "new jersey", "new mexico", "new york",
       "north carolina", "north dakota", "ohio", "oklahoma", "oregon",
       "pennsylvania", "rhode island", "south carolina", "south dakota",
       "tennessee", "texas", "utah", "vermont", "virginia", "washington",
       "west virginia", "wisconsin", "wyoming", "district of columbia" >>

\* LocationParser.foreign_indicators
foreign_indicators ==
    << "india", "uk", "united kingdom", "london", "canada", "toronto",
       "vancouver", "ontario", "germany", "berlin", "munich", "france",
       "paris", "spain", "madrid", "barcelona", "australia", "sydney",
       "melbourne", "china", "japan", "tokyo", "singapore", "brazil",
       "mexico", "dubai", "uae", "netherlands", "amsterdam", "sweden",
       "stockholm", "bangalore", "mumbai", "delhi", "hyderabad", "pune",
       "chennai" >>

\* mutant of the list search: no word of a list is ever found
AnyWordNever(words, text) == FALSE

\* any word of the list is found in the text
AnyWord(words, text) == \E k \in 1..Len(words) : WordMatch(text, words[k])

\* the first word of the list found in the text
FirstWord(words, text) ==
    words[CHOOSE k \in 1..Len(words) :
            /\ WordMatch(text, words[k])
            /\ \A j \in 1..(k - 1) : ~WordMatch(text, words[j])]

\* LocationParser.parse
ParseLocation(raw_location) ==
    LET raw == IF Truthy(raw_location) THEN Strip(Lower(raw_location)) ELSE <<>>
        remote_type == IF Contains(raw, "remote") THEN "remote"
                       ELSE IF Contains(raw, "hybrid") THEN "hybrid"
                       ELSE "onsite"
        upper_raw == Upper(raw_location)
        is_us == \/ AnyWord(us_country_indicators, raw)
                 \/ AnyWord(us_state_names, raw)
                 \/ AnyWord(us_state_codes, upper_raw)
    IN  IF AnyWord(foreign_indicators, raw)
        THEN [city |-> "Unknown", state |-> "Unknown", country |-> "Non-US",
              remote_type |-> remote_type, is_us |-> FALSE]
        ELSE [city |-> "Unknown",
              state |-> IF AnyWord(us_state_codes, upper_raw)
                        THEN FirstWord(us_state_codes, upper_raw) ELSE "",
              country |-> IF is_us THEN "USA" ELSE "Unknown",
              remote_type |-> remote_type, is_us |-> is_us]

\* ", ".join(hits)
RECURSIVE JoinComma(_)
JoinComma(hits) ==
    IF Len(hits) = 0 THEN <<>>
    ELSE IF Len(hits) = 1 THEN <<hits[1]>>
    ELSE <<hits[1], ",", "ws">> \o JoinComma(Tail(hits))

\* mutant of the anti-spam rule: no script is rejected
NoForeignScriptAtoms == {}

\* atoms written in the scripts the anti-spam rule rejects
ForeignScriptAtoms == {"cjk_word"}

\* mutant of _categorize: the rules are tried in the reverse order
CategorizeReversed(role_title) ==
    LET title == Lower(role_title) IN
    IF Contains(title, "security") THEN "security"
    ELSE IF Contains(title, "devops") \/ Contains(title, "sre")
            \/ Contains(title, "cloud") THEN "devops-sre"
    ELSE IF Contains(title, "machine learning") \/ Contains(title, "ml")
            \/ Contains(title, "ai") THEN "ml-ai"
    ELSE IF Contains(title, "full stack") \/ Contains(title, "fullstack")
         THEN "fullstack"
    ELSE IF Contains(title, "frontend") \/ Contains(title, "front-end")
            \/ Contains(title, "ui") THEN "frontend"
    ELSE IF Contains(title, "backend") \/ Contains(title, "back-end") THEN "backend"
    ELSE IF Contains(title, "data") \/ Contains(title, "analyst") THEN "data"
    ELSE "other-tech"

\* TechFilter._categorize
Categorize(role_title) ==
    LET title == Lower(role_title) IN
    IF Contains(title, "data") \/ Contains(title, "analyst") THEN "data"
    ELSE IF Contains(title, "backend") \/ Contains(title, "back-end") THEN "backend"
    ELSE IF Contains(title, "frontend") \/ Contains(title, "front-end")
            \/ Contains(title, "ui") THEN "frontend"
    ELSE IF Contains(title, "full stack") \/ Contains(title, "fullstack")
         THEN "fullstack"
    ELSE IF Contains(title, "machine learning") \/ Contains(title, "ml")
            \/ Contains(title, "ai") THEN "ml-ai"
    ELSE IF Contains(title, "devops") \/ Contains(title, "sre")
            \/ Contains(title, "cloud") THEN "devops-sre"
    ELSE IF Contains(title, "security") THEN "security"
    ELSE "other-tech"

\* TechFilter.process_lead under the roles filter of the configuration
ProcessLead(lead, roles) ==
    LET text_corpus == Lower(lead.role_title \o <<"ws">> \o lead.description_snippet
                             \o <<"ws">> \o lead.tech_stack_keywords)
        lowered(words) == [k \in 1..Len(words) |-> LowerChar(words[k])]
        Hit(word) == WordMatch(text_corpus, LowerChar(word))
        hits == SelectSeq(roles.include_keywords, Hit)
    IN  IF AnyWord(lowered(roles.exclude_keywords), text_corpus)
        THEN [lead EXCEPT
                !.match_score = 0,
                !.notes = <<"Excluded by keyword: ",
                            roles.exclude_keywords[
                              CHOOSE k \in 1..Len(roles.exclude_keywords) :
                                /\ Hit(roles.exclude_keywords[k])
                                /\ \A j \in 1..(k - 1) :
                                      ~Hit(roles.exclude_keywords[j])]>>]
        ELSE IF \E i \in 1..Len(lead.role_title) :
                    lead.role_title[i] \in ForeignScriptAtoms
        THEN [lead EXCEPT
                !.match_score = 0,
                !.notes = <<"Excluded: Non-English characters detected">>]
        ELSE IF hits # <<>>
        THEN [lead EXCEPT
                !.matched_keywords = JoinComma(hits),
                !.match_score = Min(50 + Len(hits) * 10, 100),
                !.role_category = Categorize(lead.role_title)]
        ELSE [lead EXCEPT
                !.matched_keywords = <<>>,
                !.match_score = 10,
                !.notes = <<VagueNote>>,
                !.role_category = Categorize(lead.role_title)]

\* leads the sources can return
LeadCatalog ==
    LET title == <<"Backend", "ws", "Engineer">>
        nyc == <<"New York", ",", "ws", "NY">>
    IN << JobLead(<<"Acme">>, title, nyc, <<"python", "ws", "aws">>,
                  <<"http://acme.com/jobs/1">>, 1),
          JobLead(<<"Acme">>, title, nyc, <<"kubernetes">>,
                  <<"http://acme.com/jobs/1">>, 2),
          JobLead(<<"ACME">>, title, <<"Remote">>, <<"Python">>,
                  <<"http://acme.com/jobs/1">>, 2),
          JobLead(<<"Beta">>, <<"Senior", "ws", "Recruiter">>, <<"Remote">>,
                  <<"python">>, <<"http://beta.com/jobs/2">>, 1),
          JobLead(<<"Gamma">>, <<"Data", "ws", "Analyst">>,
                  <<"London", ",", "ws", "UK">>, <<"python">>,
                  <<"http://gamma.com/jobs/3">>, 1),
          JobLead(<<"Delta", "ws">>, <<"ws", "Senior", "ws", "Engineer">>,
                  <<"United States">>, <<>>, <<"mailto:jobs">>, 1),
          JobLead(<<"Gamma">>, <<"cjk_word">>, nyc, <<"python", "ws", "aws">>,
                  <<"http://gamma.com/jobs/3">>, 1) >>

\* bound: leads the sources return in one run
MaxRawLeads == 2

RawBatches ==
    UNION {[1..n -> {LeadCatalog[k] : k \in 1..Len(LeadCatalog)}] :
            n \in 0..MaxRawLeads}

\* the sets load_seen_ids() can return: identities of earlier runs
LoadedSeenSets ==
    SUBSET {GenerateLeadId(LeadCatalog[1]), GenerateLeadId(LeadCatalog[6])}

\* config/config.yaml as get_config() returns it (the parts main_async reads)
Configs ==
    { [allowed_countries |-> a, match_score_threshold |-> t,
       roles |-> [exclude_keywords |-> <<"Recruiter">>,
                  include_keywords |-> <<"Python", "aws", "kubernetes">>],
       llm_enabled |-> TRUE, alert_threshold |-> 85] :
      a \in {<<>>, <<"USA">>}, t \in {0, 10, 60} }

\* crawler.arun(url): what a crawl can come back with
CrawlOutcomes == {"exception", "failed", "authwall", "content"}

\* mutant of the seen test: nothing counts as seen
IsSeenNever(lid, seen) == FALSE

\* lid in seen_ids
IsSeen(lid, seen) == lid \in seen

\* mutant of the geo gate: no lead is dropped for its location
GeoDroppedNever(allowed_countries, country, is_us) == FALSE

\* if allowed_countries and "USA" not in lead.country: if not is_us: continue
GeoDropped(allowed_countries, country, is_us) ==
    Truthy(allowed_countries) /\ country # "USA" /\ ~is_us

\* mutant of the admission check: a score equal to the threshold is dropped
AtOrBelowThreshold(score, threshold) == score <= threshold

\* lead.match_score < config["filters"]["roles"]["match_score_threshold"]
BelowThreshold(score, threshold) == score < threshold

IntakeInit ==
    /\ FreshManagers
    /\ phase = "run" /\ batches_left = 0
    /\ IdleId /\ IdleFn /\ IdleCrawl /\ IdleSearch
    /\ config \in Configs
    /\ loaded_ids \in LoadedSeenSets
    /\ seen_ids = loaded_ids
    /\ all_raw_leads \in RawBatches
    /\ fetched = all_raw_leads
    /\ idx = 1
    /\ candidates_to_crawl = <<>>
    /\ skipped_ids = 0
    /\ pc = IF all_raw_leads = <<>> THEN "enrich" ELSE "prefilter"
    /\ stages = [i \in 1..Len(all_raw_leads) |-> <<>>]
    /\ fin_idx = 1
    /\ new_leads_to_save = <<>>
    /\ high_value_leads = <<>>
    /\ store_rows = <<>>
    /\ notified = [instant |-> <<>>, digest |-> <<>>]

\* one iteration of the pre-filter loop: for lead in all_raw_leads
PrefilterStep ==
    /\ pc = "prefilter" /\ idx <= Len(all_raw_leads)
    /\ LET lead0 == all_raw_leads[idx]
           lid == GenerateLeadId(lead0)
           lead1 == [lead0 EXCEPT !.lead_id = lid,
                                  !.company = Strip(lead0.company),
                                  !.role_title = Strip(lead0.role_title)]
           loc_data == ParseLocation(lead1.location_raw)
           lead2 == [lead1 EXCEPT !.city = loc_data.city,
                                  !.state = loc_data.state,
                                  !.country = loc_data.country,
                                  !.remote_type = loc_data.remote_type]
           lead3 == ProcessLead(lead2, config.roles)
       IN  IF IsSeen(lid, seen_ids)
           THEN /\ skipped_ids' = skipped_ids + 1
                /\ stages' = [stages EXCEPT ![idx] = <<"identity">>]
                /\ UNCHANGED <<all_raw_leads, candidates_to_crawl, searchVars>>
           ELSE IF GeoDropped(config.allowed_countries, lead2.country,
                              loc_data.is_us)
           THEN /\ all_raw_leads' = [all_raw_leads EXCEPT ![idx] = lead2]
                /\ stages' = [stages EXCEPT
                                ![idx] = <<"identity", "normalize", "geo">>]
                /\ UNCHANGED <<skipped_ids, candidates_to_crawl, searchVars>>
           ELSE IF BelowThreshold(lead3.match_score, config.match_score_threshold)
           THEN /\ all_raw_leads' = [all_raw_leads EXCEPT ![idx] = lead3]
                /\ stages' = [stages EXCEPT
                                ![idx] = <<"identity", "normalize", "geo", "filter">>]
                /\ UNCHANGED <<skipped_ids, candidates_to_crawl, searchVars>>
           ELSE /\ all_raw_leads' = [all_raw_leads EXCEPT ![idx] = lead3]
                /\ stages' = [stages EXCEPT
                                ![idx] = <<"identity", "normalize", "geo", "filter",
                                           "candidate">>]
                /\ candidates_to_crawl' = Append(candidates_to_crawl, idx)
                /\ UNCHANGED skipped_ids
    /\ idx' = idx + 1
    /\ pc' = IF idx = Len(all_raw_leads) THEN "enrich" ELSE "prefilter"
    /\ UNCHANGED <<config, seen_ids, loaded_ids, fetched, fin_idx,
                   new_leads_to_save, high_value_leads, store_rows, notified,
                   llmVars, idVars, fnVars, crawlVars, searchVars>>

\* mutant of crawl_lead: the lead is marked as crawled whatever came back
CrawlLeadAlwaysMarks(lead, o) == [lead EXCEPT !.notes = @ \o <<CrawledNote>>]

\* crawl_lead(crawler, lead) when the crawler comes back with outcome o
CrawlLead(lead, o) ==
    IF ~Truthy(lead.link) \/ ~Contains(lead.link, "http") THEN lead
    ELSE IF o # "content" THEN lead
    ELSE LET set == SetAttr(lead, "full_description", <<"desc">>) IN
         IF ~set.ok THEN lead              \* ValueError, caught at line 42
         ELSE [set.lead EXCEPT !.notes = @ \o <<CrawledNote>>]

\* if candidates_to_crawl: await enrich_leads(candidates_to_crawl)
EnrichLeads ==
    /\ pc = "enrich"
    /\ \E outcome \in [1..Len(candidates_to_crawl) -> CrawlOutcomes] :
        LET Pos(i) == CHOOSE k \in 1..Len(candidates_to_crawl) :
                        candidates_to_crawl[k] = i
            Crawled(i) == \E k \in 1..Len(candidates_to_crawl) :
                            /\ candidates_to_crawl[k] = i
                            /\ Truthy(all_raw_leads[i].link)
                            /\ Contains(all_raw_leads[i].link, "http")
        IN /\ all_raw_leads' =
                [i \in 1..Len(all_raw_leads) |->
                    IF \E k \in 1..Len(candidates_to_crawl) :
                            candidates_to_crawl[k] = i
                    THEN CrawlLead(all_raw_leads[i], outcome[Pos(i)])
                    ELSE all_raw_leads[i]]
           /\ stages' = [i \in 1..Len(stages) |->
                            IF Crawled(i) THEN Append(stages[i], "crawl")
                            ELSE stages[i]]
    /\ pc' = IF candidates_to_crawl = <<>> THEN "emit" ELSE "finalize"
    /\ fin_idx' = 1
    /\ UNCHANGED <<config, seen_ids, loaded_ids, fetched, idx,
                   candidates_to_crawl, skipped_ids, new_leads_to_save,
                   high_value_leads, store_rows, notified, llmVars, idVars, fnVars, crawlVars, searchVars>>

\* lines 134-150 of the finalize loop for candidate i, scored as lead
KeepOrDrop(i, lead) ==
    /\ all_raw_leads' = [all_raw_leads EXCEPT ![i] = lead]
    /\ IF BelowThreshold(lead.match_score, config.match_score_threshold)
       THEN /\ stages' = [stages EXCEPT ![i] = Append(@, "dropped")]
            /\ UNCHANGED <<seen_ids, new_leads_to_save, high_value_leads, searchVars>>
       ELSE /\ stages' = [stages EXCEPT ![i] = Append(@, "kept")]
            /\ new_leads_to_save' = Append(new_leads_to_save, i)
            /\ seen_ids' = seen_ids \cup {lead.lead_id}
            /\ high_value_leads' =
                 IF lead.match_score >= config.alert_threshold
                 THEN Append(high_value_leads, i) ELSE high_value_leads

\* one iteration of the finalize loop: for lead in candidates_to_crawl
FinalizeStep ==
    /\ pc = "finalize" /\ fin_idx <= Len(candidates_to_crawl)
    /\ LET i == candidates_to_crawl[fin_idx]
           lead == all_raw_leads[i]
       IN  IF ~HasAttr(lead, "full_description")
           THEN \* line 126: AttributeError, outside the try; the run ends
                /\ pc' = "crashed"
                /\ stages' = [stages EXCEPT ![i] = Append(@, "score_check")]
                /\ UNCHANGED <<all_raw_leads, seen_ids, new_leads_to_save,
                               high_value_leads, fin_idx, now, calls_this_run,
                               failures, last, fail_log, scored, searchVars>>
           ELSE /\ pc' = IF fin_idx = Len(candidates_to_crawl)
                         THEN "emit" ELSE "finalize"
                /\ fin_idx' = fin_idx + 1
                /\ IF Truthy(lead.full_description) /\ config.llm_enabled
                   THEN \E g \in Generate("runner", ScoreResponses) :
                        /\ AfterGenerate("runner", "score", g, 0)
                        /\ KeepOrDrop(i, IF g.raised THEN lead
                                         ELSE ApplyScoreResponse(lead, g.result))
                        /\ UNCHANGED scored
                   ELSE /\ KeepOrDrop(i, lead)
                        /\ UNCHANGED <<now, calls_this_run, failures, last,
                                       fail_log, scored, searchVars>>
    /\ UNCHANGED <<config, loaded_ids, fetched, idx, candidates_to_crawl,
                   skipped_ids, store_rows, notified, phase, batches_left,
                   leads_left, idVars, fnVars, crawlVars, searchVars>>

\* the digest takes the twenty best leads
DigestMax == 20

\* sorted(leads, key=match_score, reverse=True): stable, best first
RECURSIVE SortByScore(_)
SortByScore(ixs) ==
    IF ixs = <<>> THEN <<>>
    ELSE LET k == CHOOSE k \in 1..Len(ixs) :
                    /\ \A j \in 1..Len(ixs) :
                          all_raw_leads[ixs[j]].match_score
                            <= all_raw_leads[ixs[k]].match_score
                    /\ \A j \in 1..(k - 1) :
                          all_raw_leads[ixs[j]].match_score
                            < all_raw_leads[ixs[k]].match_score
         IN <<ixs[k]>> \o SortByScore(SubSeq(ixs, 1, k - 1)
                                      \o SubSeq(ixs, k + 1, Len(ixs)))

\* mutant of the emit stage: every raw lead is written to the store
EmitEverything ==
    /\ pc = "emit"
    /\ store_rows' = all_raw_leads
    /\ notified' = [instant |-> high_value_leads, digest |-> new_leads_to_save]
    /\ pc' = "done"
    /\ UNCHANGED <<config, seen_ids, loaded_ids, all_raw_leads, fetched, idx,
                   candidates_to_crawl, skipped_ids, stages, fin_idx,
                   new_leads_to_save, high_value_leads, llmVars, idVars, fnVars,
                   crawlVars, searchVars>>

\* lines 152-168: persist the survivors, then notify
Emit ==
    /\ pc = "emit"
    /\ store_rows' = store_rows \o [k \in 1..Len(new_leads_to_save) |->
                                      all_raw_leads[new_leads_to_save[k]]]
    /\ notified' =
         [instant |-> high_value_leads,
          digest |-> SubSeq(SortByScore(new_leads_to_save), 1,
                            Min(DigestMax, Len(new_leads_to_save)))]
    /\ pc' = "done"
    /\ UNCHANGED <<config, seen_ids, loaded_ids, all_raw_leads, fetched, idx,
                   candidates_to_crawl, skipped_ids, stages, fin_idx,
                   new_leads_to_save, high_value_leads, llmVars, idVars, fnVars, crawlVars, searchVars>>

IntakeNext == PrefilterStep \/ EnrichLeads \/ FinalizeStep \/ Emit

SpecIntake == IntakeInit /\ [][IntakeNext]_vars

(***************************************************************************)
(* Properties of generate() and score_lead()                               *)
(***************************************************************************)
Asked == last.consumer # "none"

TraceKey(e) == BreakerKey(EndpointOrder[e.ep])

\* no endpoint was called in the request (a skipped endpoint is not called)
NoProviderCall(trace) == \A i \in 1..Len(trace) : trace[i].kind = "skip"

\* the configured order: providers in list order, then the provider's models
ConfiguredBefore(a, b) == a.pi < b.pi \/ (a.pi = b.pi /\ a.mi < b.mi)

\* C1: a request made when calls_this_run >= global_run_budget returns None,
\* calls no provider endpoint and leaves the counter as it was, whatever the
\* breaker holds.
C1_BudgetEnforcement ==
    (Asked /\ last.pre_calls >= RunBudget) =>
        /\ last.result = None
        /\ NoProviderCall(last.trace)
        /\ ~last.raised
        /\ calls_this_run[last.mgr] = last.pre_calls

\* C1 witness: a request was made with the budget used up while an endpoint
\* was eligible and another was in cooldown.
C1_Witness ==
    /\ Asked /\ last.pre_calls >= RunBudget
    /\ \E k \in BreakerKeys : CanTry(last.pre_failures, k, last.start)
    /\ \E k \in BreakerKeys : ~CanTry(last.pre_failures, k, last.start)

\* C2: over the whole run the successful calls of both managers together never
\* exceed the ceiling, and a request made once the total has reached the
\* ceiling is refused without a provider call.
C2_RunWideBudget ==
    /\ TotalCalls <= RunBudget
    /\ (Asked /\ last.pre_total >= RunBudget) =>
           (last.result = None /\ NoProviderCall(last.trace))

\* C3: an endpoint reached by a request is skipped exactly when a failure was
\* recorded for that endpoint at most Cooldown seconds before; with no
\* recorded failure, or an older one, it is attempted.  Failures of other
\* endpoints do not count.
C3_BreakerCooldown ==
    \A i \in 1..Len(last.trace) :
        LET e == last.trace[i] IN
        (e.kind = "skip") <=>
            (\E f \in last.pre_log[TraceKey(e)] : e.at - f <= Cooldown)

\* C3 witness: one request skipped an endpoint in cooldown, attempted another
\* whose failure was older than the cooldown, and one that never failed.
C3_Witness ==
    \E i, j, k \in 1..Len(last.trace) :
        /\ last.trace[i].kind = "skip"
        /\ last.trace[j].kind # "skip"
        /\ last.pre_log[TraceKey(last.trace[j])] # {}
        /\ last.trace[k].kind # "skip"
        /\ last.pre_log[TraceKey(last.trace[k])] = {}

\* C4: every attempt that raised or returned an empty result left a failure
\* time for exactly that endpoint, and the request went on to the next one.
C4_FailureRecorded ==
    \A i \in 1..Len(last.trace) :
        LET e == last.trace[i] IN
        e.kind \in {"raise", "empty"} =>
            /\ TraceKey(e) \in DOMAIN failures[last.mgr]
            /\ failures[last.mgr][TraceKey(e)] = e.done
            /\ e.ep < Len(EndpointOrder) => i < Len(last.trace)

\* C5: a request within budget goes through the endpoints in configured
\* order, leaving none out; the first one that returns text ends the request:
\* no later endpoint is reached, the text is the result, the counter is one
\* more than before.
C5_FirstSuccessWins ==
    (Asked /\ last.pre_calls < RunBudget) =>
        /\ \A i \in 1..Len(last.trace) : last.trace[i].ep = i
        /\ \A i, j \in 1..Len(last.trace) :
              i < j => ConfiguredBefore(EndpointOrder[last.trace[i].ep],
                                        EndpointOrder[last.trace[j].ep])
        /\ \A i \in 1..Len(last.trace) :
              last.trace[i].kind = "ok" =>
                  /\ i = Len(last.trace)
                  /\ Truthy(last.result) /\ last.result = last.trace[i].value
                  /\ calls_this_run[last.mgr] = last.pre_calls + 1

\* C5 witness: after one success already counted, the first endpoint failed,
\* the second answered, and the third was not reached.
C5_Witness ==
    /\ Asked /\ last.pre_calls = 1
    /\ Len(last.trace) = 2 /\ Len(EndpointOrder) > 2
    /\ last.trace[1].kind \in {"raise", "empty"}
    /\ last.trace[2].kind = "ok"

\* C6: generate never raises; when no endpoint answers (each one in cooldown,
\* raising or returning nothing) the result is None and the counter is kept.
C6_NeverRaises ==
    /\ ~last.raised
    /\ (Asked /\ \A i \in 1..Len(last.trace) : last.trace[i].kind # "ok") =>
           (last.result = None /\ calls_this_run[last.mgr] = last.pre_calls)

\* C6 witness: a request found one endpoint in cooldown, one raising and one
\* returning nothing.
C6_Witness ==
    /\ Asked /\ last.pre_calls < RunBudget
    /\ \E i, j, k \in 1..Len(last.trace) :
        /\ last.trace[i].kind = "skip"
        /\ last.trace[j].kind = "raise"
        /\ last.trace[k].kind = "empty"

\* A response parses into a score when, white space and fences aside, it is
\* one JSON object whose "score", if it has one, is a number.
ParsesIntoScore(resp) ==
    LET body == SelectSeq(resp, LAMBDA tok : tok # "ws" /\ tok \notin {"fence_json", "fence"})
    IN  /\ Len(body) = 1
        /\ body[1] \in {"obj_score_reason", "obj_reason", "obj_pctscore_reason"}

PayloadInNoise(resp) ==
    /\ \E i \in 1..Len(resp) :
          /\ resp[i] = "obj_score_reason"
          /\ \A j \in (1..Len(resp)) \ {i} :
                resp[j] \in {"fence_json", "fence", "text", "ws"}

\* C27: whenever the response holds a well-formed payload with a score and a
\* reason, surrounded by markdown fences or by a sentence of prose, score_lead
\* overwrites the lead's match_score with the payload's score and its notes
\* with the payload's reason.
C27_NoiseTolerantParsing ==
    (scored.state = "asked" /\ Truthy(scored.response)
        /\ PayloadInNoise(scored.response)) =>
        /\ scored.after.match_score = 95
        /\ scored.after.notes = <<"LLM: ", "Strong match">>

\* C16: every lead's match_score lies in [0.0, 1.0], also after deep scoring
\* has overwritten it with the value parsed from an LLM response.
C16_ScoreRange ==
    scored.state = "asked" =>
        /\ 0 <= scored.before.match_score /\ scored.before.match_score <= 100
        /\ 0 <= scored.after.match_score /\ scored.after.match_score <= 100

(***************************************************************************)
(* TechFilter.process_lead applied to drawn leads                          *)
(***************************************************************************)
\* " ".join(words)
RECURSIVE JoinSpace(_)
JoinSpace(words) ==
    IF Len(words) = 0 THEN <<>>
    ELSE IF Len(words) = 1 THEN <<words[1]>>
    ELSE <<words[1], "ws">> \o JoinSpace(Tail(words))

\* filters.roles.include_keywords of the drawn configurations
FilterKeywords == <<"Python", "aws", "kubernetes", "docker", "sql", "go">>

\* filters.roles of the drawn configurations
FilterRoles ==
    { [exclude_keywords |-> e, include_keywords |-> FilterKeywords] :
        e \in {<<>>, <<"Recruiter">>, <<"Senior", "Recruiter">>,
               <<"Recruiter", "Senior">>} }

\* snippets: any choice of the keywords, lowercase, in a sentence
FilterSnippets ==
    { LET In(w) == w \in S IN JoinSpace(SelectSeq(Lower(FilterKeywords), In)) :
        S \in SUBSET {Lower(FilterKeywords)[k] : k \in 1..Len(FilterKeywords)} }

FilterTitles ==
    { <<"Backend", "ws", "Engineer">>, <<"Senior", "ws", "Recruiter">>,
      <<"Python", "ws", "Engineer">>, <<"Senior", "ws", "Engineer">>,
      <<"cjk_word">>, <<"Frontend", "ws", "Engineer">>,
      <<"Full Stack", "ws", "Engineer">>, <<"ML", "ws", "Trainer">>,
      <<"Cloud", "ws", "Security">>, <<"Security", "ws", "Engineer">>,
      <<"Backend", "ws", "Data">>, <<"DevOps", "ws", "Trainer">>,
      <<"Trainer">> }

FilterStacks == { <<>>, <<"python", "ws", "aws">>, <<"recruiter">> }

FilterLeads ==
    { [JobLead(<<"Acme">>, t, <<"Remote">>, sn, <<"http://acme.com/jobs/1">>, 1)
         EXCEPT !.tech_stack_keywords = st] :
        t \in FilterTitles, sn \in FilterSnippets, st \in FilterStacks }

FilterInit ==
    /\ fn_in \in {[lead |-> l, roles |-> r] : l \in FilterLeads, r \in FilterRoles}
    /\ fn_out = <<>>
    /\ IdleLlm /\ IdleId /\ IdleRun /\ IdleCrawl /\ IdleSearch

\* res = f.process_lead(lead)
ApplyProcessLead ==
    /\ fn_in # <<>> /\ fn_out = <<>>
    /\ "roles" \in DOMAIN fn_in
    /\ fn_out' = ProcessLead(fn_in.lead, fn_in.roles)
    /\ UNCHANGED <<fn_in, llmVars, idVars, runVars, crawlVars, searchVars>>

FilterNext == ApplyProcessLead

SpecFilter == FilterInit /\ [][FilterNext]_vars

\* the whole words of the lowercased text corpus of a lead
CorpusWords(lead) ==
    LET text == lead.role_title \o <<"ws">> \o lead.description_snippet
                \o <<"ws">> \o lead.tech_stack_keywords
    IN UNION {WordsIn(LowerChar(text[i])) : i \in 1..Len(text)}

\* positions of the keywords of a list that occur in the corpus of a lead
KeywordHits(keywords, lead) ==
    {k \in 1..Len(keywords) : LowerChar(keywords[k]) \in CorpusWords(lead)}

\* C11: a lead whose text corpus holds a configured exclusion keyword as a
\* whole word comes out of process_lead with score 0.0 and with the first such
\* keyword named in its notes, however many inclusion keywords it holds.
C11_ExclusionDominates ==
    (fn_out # <<>> /\ "roles" \in DOMAIN fn_in) =>
        LET ex == fn_in.roles.exclude_keywords
            hits == KeywordHits(ex, fn_in.lead)
        IN hits # {} =>
            /\ fn_out.match_score = 0
            /\ fn_out.notes = <<"Excluded by keyword: ",
                                ex[CHOOSE k \in hits : \A j \in hits : k <= j]>>

\* C11 witness: a lead with an exclusion keyword and at least three inclusion
\* keywords in its corpus went through process_lead
C11_Witness ==
    /\ fn_out # <<>> /\ "roles" \in DOMAIN fn_in
    /\ KeywordHits(fn_in.roles.exclude_keywords, fn_in.lead) # {}
    /\ Cardinality(KeywordHits(fn_in.roles.include_keywords, fn_in.lead)) >= 3
    /\ fn_out.match_score = 0

\* min(1.0, 0.5 + 0.1 * n) for n = 1..6, in hundredths
ExpectedScore == <<60, 70, 80, 90, 100, 100>>

\* C12: with no exclusion hit (and a title in Latin script), a lead with
\* n >= 1 matched inclusion keywords gets min(1.0, 0.5 + 0.1 n): 0.6 for one,
\* 0.8 for three, 1.0 from five on, never decreasing in n.
C12_ScoreFunction ==
    (fn_out # <<>> /\ "roles" \in DOMAIN fn_in) =>
        LET n == Cardinality(KeywordHits(fn_in.roles.include_keywords, fn_in.lead))
        IN (/\ KeywordHits(fn_in.roles.exclude_keywords, fn_in.lead) = {}
            /\ \A i \in 1..Len(fn_in.lead.role_title) :
                    fn_in.lead.role_title[i] \notin ForeignScriptAtoms
            /\ n >= 1)
           => /\ fn_out.match_score = ExpectedScore[n]
              /\ \A m \in 1..n : ExpectedScore[m] <= fn_out.match_score

\* C12 as stated, for every title: with no exclusion hit, a lead with n >= 1
\* matched inclusion keywords gets min(1.0, 0.5 + 0.1 n).
C12_ScoreFunctionAnyTitle ==
    (fn_out # <<>> /\ "roles" \in DOMAIN fn_in) =>
        LET n == Cardinality(KeywordHits(fn_in.roles.include_keywords, fn_in.lead))
        IN (KeywordHits(fn_in.roles.exclude_keywords, fn_in.lead) = {} /\ n >= 1)
           => fn_out.match_score = ExpectedScore[n]

\* C12 witness: a lead with six matched keywords was scored at the cap
C12_Witness ==
    /\ fn_out # <<>> /\ "roles" \in DOMAIN fn_in
    /\ KeywordHits(fn_in.roles.exclude_keywords, fn_in.lead) = {}
    /\ Cardinality(KeywordHits(fn_in.roles.include_keywords, fn_in.lead)) = 6
    /\ fn_out.match_score = 100

\* the category rules in their fixed order: category, substrings
CategoryRules ==
    << <<"data", {"data", "analyst"}>>,
       <<"backend", {"backend", "back-end"}>>,
       <<"frontend", {"frontend", "front-end", "ui"}>>,
       <<"fullstack", {"full stack", "fullstack"}>>,
       <<"ml-ai", {"machine learning", "ml", "ai"}>>,
       <<"devops-sre", {"devops", "sre", "cloud"}>>,
       <<"security", {"security"}>> >>

\* the rules with a substring in the lowercased title
RulesHit(title) ==
    {r \in 1..Len(CategoryRules) :
        \E n \in CategoryRules[r][2] : Contains(Lower(title), n)}

\* the category of the first rule that matches, or the fallback
FirstRule(title, fallback) ==
    IF RulesHit(title) = {} THEN fallback
    ELSE CategoryRules[CHOOSE r \in RulesHit(title) :
                           \A q \in RulesHit(title) : r <= q][1]

\* process_lead returned at the exclusion rule or at the anti-spam rule
ReturnedEarly ==
    \/ KeywordHits(fn_in.roles.exclude_keywords, fn_in.lead) # {}
    \/ \E i \in 1..Len(fn_in.lead.role_title) :
          fn_in.lead.role_title[i] \in {"cjk_word"}

MaxLocWords == 3

LocWords ==
    { "San Francisco", "CA", "New York", "NY", "Austin", "Texas",
      "United States", "US", "Remote", "London", "UK", "New Mexico" }

\* words.join(sep)
RECURSIVE JoinWith(_, _)
JoinWith(words, sep) ==
    IF Len(words) = 0 THEN <<>>
    ELSE IF Len(words) = 1 THEN <<words[1]>>
    ELSE <<words[1]>> \o sep \o JoinWith(Tail(words), sep)

\* location strings: place names separated by ", " or " ", and the test's
\* "Remote (US)"
LocationStrings ==
    UNION { { JoinWith(w, sep) : w \in [1..n -> LocWords] } :
              n \in 0..MaxLocWords, sep \in {<<",", "ws">>, <<"ws">>} }
    \cup { <<"Remote", "ws", "(", "US", ")">>, <<"ws">> }

LocationInit ==
    /\ fn_in \in {[raw_location |-> x] : x \in LocationStrings}
    /\ fn_out = <<>>
    /\ IdleLlm /\ IdleId /\ IdleRun /\ IdleCrawl /\ IdleSearch

\* r = p.parse(raw_location)
ApplyParse ==
    /\ fn_in # <<>> /\ fn_out = <<>>
    /\ "raw_location" \in DOMAIN fn_in
    /\ fn_out' = ParseLocation(fn_in.raw_location)
    /\ UNCHANGED <<fn_in, llmVars, idVars, runVars, crawlVars, searchVars>>

LocationNext == ApplyParse

SpecLocation == LocationInit /\ [][LocationNext]_vars

\* the whole words of a location string, lowercased / uppercased
LowerWords(raw) == UNION {WordsIn(LowerChar(raw[i])) : i \in 1..Len(raw)}
UpperWords(raw) == UNION {WordsIn(UpperChar(raw[i])) : i \in 1..Len(raw)}

\* the members of a list
Members(list) == {list[k] : k \in 1..Len(list)}

Parsed == fn_out # <<>> /\ "raw_location" \in DOMAIN fn_in

\* C13: a location string that holds a blocklisted foreign token as a whole
\* word is classified is_us = False, country "Non-US", also when it holds a US
\* country indicator, a US state name or a US state code.
C13_BlocklistDominates ==
    (Parsed /\ LowerWords(fn_in.raw_location) \cap Members(foreign_indicators) # {})
        => (fn_out.is_us = FALSE /\ fn_out.country = "Non-US")

\* C13 witness: a string with a blocklisted token and a US state code and a US
\* country indicator was parsed
C13_Witness ==
    /\ Parsed
    /\ LowerWords(fn_in.raw_location) \cap Members(foreign_indicators) # {}
    /\ UpperWords(fn_in.raw_location) \cap Members(us_state_codes) # {}
    /\ LowerWords(fn_in.raw_location) \cap Members(us_country_indicators) # {}
    /\ fn_out.is_us = FALSE

\* C17: for '<city>, <US state code>' with no blocklisted token, parse returns
\* the part before the first comma as city, the state code as state, and
\* country "USA".
C17_CityStateExtraction ==
    (/\ Parsed
     /\ Len(fn_in.raw_location) = 4
     /\ fn_in.raw_location[2] = "," /\ fn_in.raw_location[3] = "ws"
     /\ fn_in.raw_location[4] \in Members(us_state_codes)
     /\ LowerWords(fn_in.raw_location) \cap Members(foreign_indicators) = {})
        => /\ fn_out.city = fn_in.raw_location[1]
           /\ fn_out.state = fn_in.raw_location[4]
           /\ fn_out.country = "USA"

(***************************************************************************)
(* enrich_leads (utils/crawler.py): batches of concurrent crawl_lead tasks *)
(***************************************************************************)
\* batch_size = 3
BatchSize == 3

\* bound: leads given to enrich_leads
MaxCrawlLeads == 4

\* candidates as the pre-filter hands them over: with a link to crawl, and
\* with a link that is no http URL
CrawlCandidates ==
    { [LeadCatalog[1] EXCEPT !.match_score = 70, !.notes = <<>>],
      [LeadCatalog[6] EXCEPT !.match_score = 10, !.notes = <<VagueNote>>] }

\* len(result.markdown) < 500
MinContentLen == 500

\* what crawler.arun(url) can do: throw, or return a CrawlResult with its
\* success flag, the length of its markdown, and whether the markdown holds
\* "Sign In" or "Join LinkedIn"
CrawlResults ==
    {[raised |-> TRUE, success |-> FALSE, length |-> 0, marker |-> FALSE],
     [raised |-> FALSE, success |-> FALSE, length |-> 0, marker |-> FALSE]}
    \cup {[raised |-> FALSE, success |-> TRUE, length |-> n, marker |-> m] :
            n \in {MinContentLen - 1, MinContentLen}, m \in BOOLEAN}

\* the branch of crawl_lead a result takes (lines 27-43)
CrawlOutcome(r) ==
    IF r.raised THEN "exception"
    ELSE IF ~r.success THEN "failed"
    ELSE IF r.length < MinContentLen /\ r.marker THEN "authwall"
    ELSE "content"

NoTask == [pc |-> "none", outcome |-> "none", result |-> <<>>]

\* the leads of the batch that starts at crawl_i: leads[i : i + batch_size]
InBatch(k) == crawl_i < k /\ k <= crawl_i + BatchSize /\ k <= Len(crawl_leads)

EnrichInit ==
    /\ crawl_leads \in UNION {[1..n -> CrawlCandidates] : n \in 0..MaxCrawlLeads}
    /\ crawl_tasks = [k \in 1..Len(crawl_leads) |-> NoTask]
    /\ crawl_i = 0
    /\ crawl_pc = "start"
    /\ fn_in = crawl_leads          \* the leads as they were handed over
    /\ fn_out = <<>>
    /\ IdleLlm /\ IdleId /\ IdleRun /\ IdleSearch

\* enrich_leads up to the batch loop: if not leads: return
EnterEnrich ==
    /\ crawl_pc = "start"
    /\ crawl_pc' = IF crawl_leads = <<>> THEN "returned" ELSE "batch"
    /\ UNCHANGED <<crawl_leads, crawl_tasks, crawl_i, llmVars, idVars, runVars,
                   fnVars, searchVars>>

\* tasks = [crawl_lead(crawler, lead) for lead in batch]; gather starts them:
\* each runs to its first await (the polite sleep), or returns at line 18
StartBatch ==
    /\ crawl_pc = "batch"
    /\ crawl_tasks' =
         [k \in 1..Len(crawl_leads) |->
            IF ~InBatch(k) THEN crawl_tasks[k]
            ELSE IF ~Truthy(crawl_leads[k].link)
                    \/ ~Contains(crawl_leads[k].link, "http")
                 THEN [pc |-> "done", outcome |-> "no_link", result |-> <<>>]
                 ELSE [pc |-> "sleeping", outcome |-> "none", result |-> <<>>]]
    /\ crawl_pc' = "gather"
    /\ UNCHANGED <<crawl_leads, crawl_i, llmVars, idVars, runVars, fnVars, searchVars>>

\* a task wakes from asyncio.sleep and awaits crawler.arun(url=lead.link)
StartFetch ==
    /\ crawl_pc = "gather"
    /\ \E k \in 1..Len(crawl_leads) :
        /\ crawl_tasks[k].pc = "sleeping"
        /\ crawl_tasks' = [crawl_tasks EXCEPT ![k].pc = "fetching"]
    /\ UNCHANGED <<crawl_leads, crawl_i, crawl_pc, llmVars, idVars, runVars,
                   fnVars, searchVars>>

\* arun comes back (or throws) and crawl_lead runs to its end (lines 29-43)
FinishFetch ==
    /\ crawl_pc = "gather"
    /\ \E k \in 1..Len(crawl_leads) : \E r \in CrawlResults :
        /\ crawl_tasks[k].pc = "fetching"
        /\ crawl_tasks' = [crawl_tasks EXCEPT
                            ![k] = [pc |-> "done", outcome |-> CrawlOutcome(r),
                                    result |-> <<r>>]]
        /\ crawl_leads' = [crawl_leads EXCEPT ![k] = CrawlLead(@, CrawlOutcome(r))]
    /\ UNCHANGED <<crawl_i, crawl_pc, llmVars, idVars, runVars, fnVars, searchVars>>

\* mutant of gather: it returns without waiting for the tasks of the batch
EndBatchEarly ==
    /\ crawl_pc = "gather"
    /\ crawl_pc' = "delay"
    /\ UNCHANGED <<crawl_leads, crawl_tasks, crawl_i, llmVars, idVars, runVars,
                   fnVars, searchVars>>

\* await asyncio.gather(*tasks) returns: every task of the batch has ended
EndBatch ==
    /\ crawl_pc = "gather"
    /\ \A k \in 1..Len(crawl_leads) : InBatch(k) => crawl_tasks[k].pc = "done"
    /\ crawl_pc' = "delay"
    /\ UNCHANGED <<crawl_leads, crawl_tasks, crawl_i, llmVars, idVars, runVars,
                   fnVars, searchVars>>

\* await asyncio.sleep(2) ends; the loop goes to the next batch or ends
NextBatch ==
    /\ crawl_pc = "delay"
    /\ crawl_i' = crawl_i + BatchSize
    /\ crawl_pc' = IF crawl_i + BatchSize >= Len(crawl_leads)
                   THEN "returned" ELSE "batch"
    /\ UNCHANGED <<crawl_leads, crawl_tasks, llmVars, idVars, runVars, fnVars, searchVars>>

EnrichNext ==
    EnterEnrich \/ StartBatch \/ StartFetch \/ FinishFetch \/ EndBatch \/ NextBatch

SpecEnrich == EnrichInit /\ [][EnrichNext]_vars

\* the fetch of lead k has ended as o
FetchEnded(k, o) == crawl_tasks[k].pc = "done" /\ crawl_tasks[k].outcome = o

\* C14: whatever the interleaving of a batch, a fetch that throws or fails
\* changes no lead; every lead whose own fetch succeeded has its full content
\* populated; the failing lead's content stays empty; and enrich_leads goes on
\* to the next batch without raising.
C14_EnrichmentIndependence ==
    /\ crawl_pc # "raised"
    /\ \A k \in 1..Len(crawl_leads) :
        /\ FetchEnded(k, "content") =>
              /\ HasAttr(crawl_leads[k], "full_description")
              /\ Truthy(crawl_leads[k].full_description)
        /\ (FetchEnded(k, "exception") \/ FetchEnded(k, "failed")) =>
              crawl_leads[k] = fn_in[k]
    /\ (crawl_pc = "gather" /\ \A k \in 1..Len(crawl_leads) :
            InBatch(k) => crawl_tasks[k].pc = "done") => ENABLED EndBatch

\* the result the fetch of lead k came back with, if it has ended
Fetched(k) == crawl_tasks[k].pc = "done" /\ crawl_tasks[k].result # <<>>
ResultOf(k) == crawl_tasks[k].result[1]

\* C22: once enrich_leads has returned, every lead whose fetch succeeded with
\* at least 500 characters of content has that content in full_description
\* and a crawl timestamp in crawled_at, so line 126 of the orchestrator sees
\* non-empty full content.
C22_SuccessfulEnrichment ==
    crawl_pc = "returned" =>
        \A k \in 1..Len(crawl_leads) :
            (/\ Fetched(k) /\ ~ResultOf(k).raised /\ ResultOf(k).success
             /\ ResultOf(k).length >= 500) =>
                /\ HasAttr(crawl_leads[k], "full_description")
                /\ crawl_leads[k].full_description = <<"desc">>
                /\ HasAttr(crawl_leads[k], "crawled_at")

\* the fetch of lead k threw, came back without success, or hit an auth wall
FetchFailed(k) ==
    /\ Fetched(k)
    /\ \/ ResultOf(k).raised
       \/ ~ResultOf(k).success
       \/ ResultOf(k).success /\ ResultOf(k).length < 500 /\ ResultOf(k).marker

\* C23: a lead whose fetch threw, came back without success, or came back with
\* fewer than 500 characters holding a sign-in marker has every field as it
\* was handed to enrich_leads, and has gained none.
C23_FailureFrame ==
    \A k \in 1..Len(crawl_leads) : FetchFailed(k) => crawl_leads[k] = fn_in[k]

\* C23 witness: enrich_leads has returned after a fetch that threw, one that
\* came back without success and one that hit an auth wall
C23_Witness ==
    /\ crawl_pc = "returned"
    /\ \E k \in 1..Len(crawl_leads) : FetchFailed(k) /\ ResultOf(k).raised
    /\ \E k \in 1..Len(crawl_leads) :
          FetchFailed(k) /\ ~ResultOf(k).raised /\ ~ResultOf(k).success
    /\ \E k \in 1..Len(crawl_leads) :
          /\ FetchFailed(k) /\ ResultOf(k).success
          /\ crawl_leads[k].description_snippet = <<"python", "ws", "aws">>

\* enrich_leads under the event loop's scheduling: a ready coroutine is run,
\* a sleep ends, and crawler.arun comes back or throws
SpecEnrichLive == EnrichInit /\ [][EnrichNext]_vars /\ WF_vars(EnrichNext)

\* the fetches in flight: crawl_lead coroutines started and not yet ended
InFlight ==
    {k \in 1..Len(crawl_leads) : crawl_tasks[k].pc \in {"sleeping", "fetching"}}

\* the batch of the k-th lead when the list is cut, in order, into threes
BatchOf(k) == (k - 1) \div 3

BatchOrder ==
    /\ Cardinality(InFlight) <= 3
    /\ \A k \in InFlight : \A j \in 1..Len(crawl_leads) :
          /\ j \in InFlight => BatchOf(j) = BatchOf(k)
          /\ BatchOf(j) < BatchOf(k) => crawl_tasks[j].pc = "done"
          /\ BatchOf(j) > BatchOf(k) => crawl_tasks[j] = NoTask
    /\ \A k \in 1..Len(crawl_leads) : \A j \in 1..Len(crawl_leads) :
          (crawl_tasks[k] # NoTask /\ BatchOf(j) < BatchOf(k)) =>
              crawl_tasks[j].pc = "done"
    /\ crawl_pc = "delay" => InFlight = {}
    /\ crawl_pc = "returned" =>
          \A k \in 1..Len(crawl_leads) : crawl_tasks[k].pc = "done"

\* a fetch starts only when a batch is started, and a batch is started only
\* at the entry of enrich_leads or after the delay that follows a batch
StartsAfterDelay ==
    /\ (\E k \in 1..Len(crawl_leads) :
            crawl_tasks[k] = NoTask /\ crawl_tasks'[k] # NoTask)
          => crawl_pc = "batch"
    /\ (crawl_pc # "batch" /\ crawl_pc' = "batch") => crawl_pc \in {"start", "delay"}
    /\ (crawl_pc = "delay" /\ crawl_pc' # "delay") =>
          \A k \in 1..Len(crawl_leads) : crawl_tasks[k].pc \in {"none", "done"}

\* C21: the candidates are cut, in order, into batches of at most 3; at any
\* moment at most 3 fetches are in flight, all of one batch; no fetch of a
\* batch starts before every fetch of the batch before it has ended and the
\* delay between batches has elapsed; and enrich_leads returns after the last
\* batch.
C21_BatchOrdering ==
    /\ []BatchOrder
    /\ [][StartsAfterDelay]_vars
    /\ <>(crawl_pc = "returned")

\* C21 witness: the fourth lead's fetch is in flight as the second batch, after
\* a first batch of three in which a fetch threw
C21_Witness ==
    /\ Len(crawl_leads) = 4
    /\ crawl_tasks[4].pc = "fetching"
    /\ \E k \in 1..3 : FetchEnded(k, "exception")
    /\ \E k \in 1..3 : FetchEnded(k, "content")

(***************************************************************************)
(* GoogleSearchSource.fetch_leads (sources/google_search.py): the query    *)
(* loop with its retry on quota responses                                  *)
(***************************************************************************)
\* bound: queries built for one run (3 per role batch plus the AI queries)
MaxSearchQueries == 4

\* bound: leads parsed out of one result page (num=10 in the code)
MaxItems == 2

\* bound: the count of calls for one query is kept up to this value
MaxSearchAttempts == 3

\* what cse().list(...).execute() can do: return a page, raise HttpError with
\* a status, or raise another exception
SearchOutcomes == {"page", "http_403", "http_429", "http_500", "exception"}

SearchInit ==
    /\ search_n \in 0..MaxSearchQueries
    /\ search_q = 1
    /\ search_attempts = 0
    /\ search_found = 0
    /\ search_pc = "start"
    /\ IdleLlm /\ IdleId /\ IdleRun /\ IdleFn /\ IdleCrawl

\* for q in queries: the loop is entered, or return leads when there is none
StartSearch ==
    /\ search_pc = "start"
    /\ search_pc' = IF search_n = 0 THEN "returned" ELSE "query"
    /\ UNCHANGED <<search_n, search_q, search_attempts, search_found, llmVars,
                   idVars, runVars, fnVars, crawlVars>>

\* one pass of the while True body (lines 107-142)
CallSearch ==
    /\ search_pc = "query"
    /\ \E o \in SearchOutcomes : \E items \in 0..MaxItems :
        IF o \in {"http_403", "http_429"}
        THEN \* time.sleep(3600), then continue: the same query again
             /\ items = 0
             /\ search_pc' = "sleeping"
             /\ search_attempts' = Min(search_attempts + 1, MaxSearchAttempts)
             /\ UNCHANGED <<search_q, search_found>>
        ELSE \* break: on to the next query, or return leads
             /\ o # "page" => items = 0
             /\ search_found' = search_found + items
             /\ search_q' = search_q + 1
             /\ search_attempts' = 0
             /\ search_pc' = IF search_q = search_n THEN "returned" ELSE "query"
    /\ UNCHANGED <<search_n, llmVars, idVars, runVars, fnVars, crawlVars>>

\* the hour of time.sleep(3600) is over
WakeUp ==
    /\ search_pc = "sleeping"
    /\ search_pc' = "query"
    /\ UNCHANGED <<search_n, search_q, search_attempts, search_found, llmVars,
                   idVars, runVars, fnVars, crawlVars>>

SearchNext == StartSearch \/ CallSearch \/ WakeUp

\* the process keeps running: a call comes back or raises, a sleep ends
SpecSearch == SearchInit /\ [][SearchNext]_vars /\ WF_vars(SearchNext)

\* C30: whatever the search API answers, quota responses included, fetch_leads
\* gives up on a query after a bounded number of attempts and eventually
\* returns its lead list, so that main_async goes on to the filtering stages.
C30_SearchTerminates == <>(search_pc = "returned")

(***************************************************************************)
(* Properties of the intake loop                                           *)
(***************************************************************************)
\* raw lead i was appended to candidates_to_crawl
IsCandidate(i) ==
    \E k \in 1..Len(candidates_to_crawl) : candidates_to_crawl[k] = i

\* raw lead i was kept by the finalize loop, written to the store or notified
IsEmitted(i) ==
    \/ \E k \in 1..Len(new_leads_to_save) : new_leads_to_save[k] = i
    \/ \E k \in 1..Len(high_value_leads) : high_value_leads[k] = i
    \/ \E k \in 1..Len(store_rows) : store_rows[k].lead_id = all_raw_leads[i].lead_id
    \/ \E k \in 1..Len(notified.instant) : notified.instant[k] = i
    \/ \E k \in 1..Len(notified.digest) : notified.digest[k] = i

\* C8: when the raw batch holds two leads with the same (company, role title,
\* link), at most one of them becomes a crawl candidate: the later one is
\* dropped as a duplicate at the identity check.
C8_WithinRunDedup ==
    \A i \in 1..Len(fetched) : \A j \in 1..Len(fetched) :
        (i < j /\ SameKey(fetched[i], fetched[j])) =>
            /\ ~(IsCandidate(i) /\ IsCandidate(j))
            /\ (IsCandidate(i) /\ idx > j) => stages[j] = <<"identity">>

\* C9: a raw lead whose identity is in the set loaded from the store is
\* dropped at the identity check: no later stage touches it, it is left as
\* fetched, it is no crawl candidate, and it is neither persisted nor notified.
C9_CrossRunDedup ==
    \A i \in 1..Len(fetched) :
        GenerateLeadId(fetched[i]) \in loaded_ids =>
            /\ stages[i] = IF idx > i THEN <<"identity">> ELSE <<>>
            /\ all_raw_leads[i] = fetched[i]
            /\ ~IsCandidate(i)
            /\ ~IsEmitted(i)

\* C9 witness: the run has ended, a lead known to the store was met by the
\* loop and counted as skipped, while an unknown lead of the same batch went on
\* to be crawled
C9_Witness ==
    /\ pc \in {"done", "crashed"}
    /\ skipped_ids > 0
    /\ \E i \in 1..Len(fetched) :
          /\ GenerateLeadId(fetched[i]) \in loaded_ids
          /\ stages[i] = <<"identity">>
    /\ \E j \in 1..Len(fetched) :
          /\ IsCandidate(j)
          /\ "crawl" \in {stages[j][k] : k \in 1..Len(stages[j])}

\* the stages that touched raw lead i
StageSet(i) == {stages[i][k] : k \in 1..Len(stages[i])}

\* a title made of CJK characters only
CjkOnly(title) == title # <<>> /\ \A k \in 1..Len(title) : title[k] = "cjk_word"

\* raw lead i was met by the pre-filter loop and was not known to the store
MetAsNew(i) == idx > i /\ GenerateLeadId(fetched[i]) \notin loaded_ids

\* C18 (amended): a new raw lead whose title holds only CJK characters is
\* geo-normalized first; when it reaches the relevance filter it gets score
\* 0.0 whatever inclusion keywords its snippet holds; under a positive
\* pre-crawl threshold it is dropped before the crawl and the LLM stage.
C18_SpamDroppedBeforeCrawl ==
    \A i \in 1..Len(fetched) :
        (CjkOnly(fetched[i].role_title) /\ MetAsNew(i)) =>
            /\ "geo" \in StageSet(i)
            /\ all_raw_leads[i].city = "Unknown"
            /\ "filter" \in StageSet(i) => all_raw_leads[i].match_score = 0
            /\ config.match_score_threshold > 0 =>
                  /\ ~IsCandidate(i)
                  /\ StageSet(i) \cap {"crawl", "score_check", "kept"} = {}
                  /\ ~IsEmitted(i)

\* C18 witness: the run has ended; a CJK-titled lead with inclusion keywords in
\* its snippet went through the geo stage and the relevance filter and was
\* scored 0.0 under a positive threshold
C18_Witness ==
    /\ pc \in {"done", "crashed"}
    /\ config.match_score_threshold > 0
    /\ \E i \in 1..Len(fetched) :
          /\ CjkOnly(fetched[i].role_title)
          /\ Cardinality(KeywordHits(config.roles.include_keywords, fetched[i])) >= 2
          /\ "filter" \in StageSet(i)
          /\ all_raw_leads[i].match_score = 0
          /\ all_raw_leads[i].state = "NY"

\* C18 as stated: a raw lead whose title holds only CJK characters gets score
\* 0.0 and is dropped before the geo stage and the LLM stage: it is not
\* geo-normalized and no LLM call is made for it.
C18_SpamDroppedBeforeGeo ==
    \A i \in 1..Len(fetched) :
        (CjkOnly(fetched[i].role_title) /\ MetAsNew(i)) =>
            /\ all_raw_leads[i].match_score = 0
            /\ "geo" \notin StageSet(i)
            /\ all_raw_leads[i].city = fetched[i].city
            /\ all_raw_leads[i].country = fetched[i].country
            /\ ~IsCandidate(i)
            /\ "score_check" \notin StageSet(i)

\* lines 85-96 applied to a raw lead
Normalized(lead0) ==
    LET loc_data == ParseLocation(lead0.location_raw) IN
    [lead0 EXCEPT !.lead_id = GenerateLeadId(lead0),
                  !.company = Strip(lead0.company),
                  !.role_title = Strip(lead0.role_title),
                  !.city = loc_data.city, !.state = loc_data.state,
                  !.country = loc_data.country,
                  !.remote_type = loc_data.remote_type]

\* the lead as the pre-crawl filter leaves it
Prefiltered(lead0) == ProcessLead(Normalized(lead0), config.roles)

\* C19: a run in which every LLM endpoint fails and every crawl target is
\* unreachable still runs to completion without a run-level exception, and
\* persists every lead that passed the pre-crawl filter with its pre-crawl
\* score.
C19_DegradedRunCompletes ==
    /\ pc # "crashed"
    /\ pc = "done" =>
          \A i \in 1..Len(fetched) : IsCandidate(i) =>
              \E k \in 1..Len(store_rows) :
                  /\ store_rows[k].lead_id = all_raw_leads[i].lead_id
                  /\ store_rows[k].match_score = Prefiltered(fetched[i]).match_score

\* the terminal states of raw lead i
DroppedDuplicate(i) == GenerateLeadId(fetched[i]) \in loaded_ids
DroppedGeo(i) ==
    /\ ~DroppedDuplicate(i)
    /\ Truthy(config.allowed_countries)
    /\ ~ParseLocation(fetched[i].location_raw).is_us
DroppedPrefilter(i) ==
    /\ ~DroppedDuplicate(i) /\ ~DroppedGeo(i)
    /\ Prefiltered(fetched[i]).match_score < config.match_score_threshold
DroppedPostscore(i) == IsCandidate(i) /\ "dropped" \in StageSet(i)
Admitted(i) == IsCandidate(i) /\ "kept" \in StageSet(i)

TerminalStates(i) ==
    {t \in {"dropped-duplicate", "dropped-geo", "dropped-prefilter",
            "dropped-postscore", "admitted"} :
        \/ t = "dropped-duplicate" /\ DroppedDuplicate(i)
        \/ t = "dropped-geo" /\ DroppedGeo(i)
        \/ t = "dropped-prefilter" /\ DroppedPrefilter(i)
        \/ t = "dropped-postscore" /\ DroppedPostscore(i)
        \/ t = "admitted" /\ Admitted(i)}

VagueAtFilter(i) ==
    /\ idx > i /\ ~DroppedDuplicate(i) /\ ~DroppedGeo(i)
    /\ KeywordHits(config.roles.exclude_keywords, fetched[i]) = {}
    /\ \A k \in 1..Len(fetched[i].role_title) :
          fetched[i].role_title[k] \notin {"cjk_word"}
    /\ KeywordHits(config.roles.include_keywords, fetched[i]) = {}

NonAdmissible(i) == ~ParseLocation(fetched[i].location_raw).is_us

\* raw lead i has not gone past the geo stage
StoppedAtGeo(i) ==
    /\ "filter" \notin StageSet(i)
    /\ all_raw_leads[i].match_score = fetched[i].match_score
    /\ all_raw_leads[i].role_category = fetched[i].role_category
    /\ ~IsCandidate(i) /\ ~IsEmitted(i)
    /\ ~DroppedDuplicate(i) => stages[i] = <<"identity", "normalize", "geo">>

\* C28 (amended): under every configuration whose allowed_countries list is
\* not empty, a raw lead the location parser classifies as not US is dropped
\* at the geo stage: it is never relevance-filtered, never a crawl candidate
\* and never admitted.
C28_GeoGate ==
    \A i \in 1..Len(fetched) :
        (idx > i /\ NonAdmissible(i) /\ config.allowed_countries # <<>>) =>
            StoppedAtGeo(i)

\* C28 witness: the run has ended; with allowed_countries ['USA'] a new lead
\* located in London was normalized and dropped at the geo stage
C28_Witness ==
    /\ pc \in {"done", "crashed"}
    /\ config.allowed_countries = <<"USA">>
    /\ \E i \in 1..Len(fetched) :
          /\ NonAdmissible(i) /\ ~DroppedDuplicate(i)
          /\ all_raw_leads[i].country = "Non-US"
          /\ stages[i] = <<"identity", "normalize", "geo">>

\* C28 as stated: in every run and under every configuration a raw lead the
\* location parser classifies as not US is dropped at the geo stage.
C28_GeoGateEveryConfig ==
    \A i \in 1..Len(fetched) : (idx > i /\ NonAdmissible(i)) => StoppedAtGeo(i)

====
